---- MODULE Spec2Model ----
(***************************************************************************)
(* Terra billing alert (src/terra_billing_alert.py).                       *)
(*                                                                         *)
(* One invocation of main is a pipeline:                                   *)
(*   get_all_workflows -> get_alert_log_table -> check_workflow loop ->    *)
(*   send_alert -> update_alert_log_table.                                 *)
(* The only state that survives an invocation is the external alert log    *)
(* table (BigQuery).  Time is counted in whole hours.                      *)
(*                                                                         *)
(* Configuration values are the numeric ones of main's lines 211-219       *)
(* (cost_limit_per_workflow, monitor_interval_hour are numbers, as         *)
(* check_workflow and get_alert_log_table compute with them).  The two     *)
(* module flags DRY_RUN and ON_GOOGLE_CLOUD_FUNCTION are chosen when an    *)
(* invocation starts.  The alert log store answers every query and takes   *)
(* every write (a table that does not exist yet reads as no rows); the     *)
(* rows of a query come back in any order.  get_alert_log_table hands      *)
(* main the iterator of df.itertuples(), which every check_workflow call   *)
(* of the invocation advances: consumed is its position.                   *)
(***************************************************************************)
EXTENDS Integers, Sequences, FiniteSets, TLC

\* ---------------------------------------------------------------- bounds
MaxWf   == 2      \* workflow ids 1..MaxWf
MaxCost == 3      \* costs 1..MaxCost
MaxTime == 2      \* the clock runs 0..MaxTime (hours)
MaxRuns == 2      \* invocations of main started in one behaviour
NumInv  == 2      \* invocations that may be in flight at once

\* ---------------------------------------------------------------- configuration
cost_limit_per_workflow == 2
monitor_interval_hour   == 1

WorkflowIds == 1..MaxWf
Costs       == 1..MaxCost
Invocations == 1..NumInv
None        == -1          \* submit_time of a submission without 'submissionDate'

VARIABLES
    now,              \* datetime.now(timezone.utc), in hours
    submitted,        \* workflow ids visible in the workflow source
    cost,             \* cost[id] reported by the source
    submit_time,      \* submit_time[id] reported by the source (or None)
    alert_log,        \* rows of the external alert log table
    to_gbq_log,       \* history: (workflow_id, cost) pairs ever written by to_gbq
    emails,           \* number of send_email calls made
    started,          \* number of invocations of main started
    pc,               \* pc[i]: position of invocation i in main
    DRY_RUN,          \* DRY_RUN[i]: the module flag of invocation i
    ON_GOOGLE_CLOUD_FUNCTION, \* ON_GOOGLE_CLOUD_FUNCTION[i]: the module flag
    all_workflows,    \* all_workflows[i]: main's collected records
    alert_log_table,  \* alert_log_table[i]: rows get_alert_log_table loaded
    consumed,         \* consumed[i]: rows of the itertuples iterator already consumed
    k,                \* k[i]: records of all_workflows[i] already checked
    workflows         \* workflows[i]: main's list of records to alert on

vars == <<now, submitted, cost, submit_time, alert_log, to_gbq_log, emails, started,
          pc, DRY_RUN, ON_GOOGLE_CLOUD_FUNCTION, all_workflows, alert_log_table,
          consumed, k, workflows>>

source  == <<submitted, cost, submit_time>>
locals  == <<DRY_RUN, ON_GOOGLE_CLOUD_FUNCTION, all_workflows, alert_log_table,
             consumed, k, workflows>>

\* ---------------------------------------------------------------- helpers
Range(s) == {s[j] : j \in 1..Len(s)}

\* every ordering of the elements of a finite set S, as sequences
Orderings(S) ==
    {s \in [1..Cardinality(S) -> S] : \A a, b \in 1..Cardinality(S) : s[a] = s[b] => a = b}

\* every permutation of a sequence s
Permutations_(s) ==
    {[j \in 1..Len(s) |-> s[p[j]]] : p \in Orderings(1..Len(s))}

\* the Workflow namedtuple, restricted to the fields the decision logic reads
Workflow(id) == [workflow_id |-> id, cost |-> cost[id], submit_time |-> submit_time[id]]

Pair(w) == <<w.workflow_id, w.cost>>

\* ---------------------------------------------------------------- pure functions

\* hours = (datetime.now(timezone.utc) - workflow.submit_time).total_seconds()/3600
hours(w, t) == t - w.submit_time

\* the first row after position c of the iterator that duplicates w, or 0
FirstMatch(w, table, c) ==
    LET M == {j \in (c+1)..Len(table) :
                 w.workflow_id = table[j].workflow_id /\ w.cost = table[j].cost}
    IN IF M = {} THEN 0 ELSE CHOOSE j \in M : \A j2 \in M : j <= j2

\* check_workflow without the monitoring-window test
check_workflow_no_window(w, table, c, t) ==
    IF w.cost >= cost_limit_per_workflow
    THEN IF w.submit_time = None
         THEN [ret |-> "TypeError", consumed |-> c]
         ELSE LET m == FirstMatch(w, table, c)
              IN IF m # 0
                 THEN [ret |-> "False", consumed |-> m]
                 ELSE [ret |-> "True", consumed |-> Len(table)]
    ELSE [ret |-> "False", consumed |-> c]

\* check_workflow with the duplicate test on workflow_id alone
check_workflow_id_only(w, table, c, t) ==
    IF w.cost >= cost_limit_per_workflow
    THEN IF w.submit_time = None
         THEN [ret |-> "TypeError", consumed |-> c]
         ELSE IF hours(w, t) < monitor_interval_hour
              THEN LET M == {j \in (c+1)..Len(table) : w.workflow_id = table[j].workflow_id}
                   IN IF M # {}
                      THEN [ret |-> "False", consumed |-> CHOOSE j \in M : \A j2 \in M : j <= j2]
                      ELSE [ret |-> "True", consumed |-> Len(table)]
              ELSE [ret |-> "False", consumed |-> c]
    ELSE [ret |-> "False", consumed |-> c]

\* check_workflow(workflow, alert_log_table, ...) at time t, with the rows 1..c of
\* alert_log_table already consumed from the iterator.  ret is "True", "False" or
\* "TypeError" (datetime - None); consumed is the iterator's position afterwards.
check_workflow(w, table, c, t) ==
    IF w.cost >= cost_limit_per_workflow
    THEN IF w.submit_time = None
         THEN [ret |-> "TypeError", consumed |-> c]
         ELSE IF hours(w, t) < monitor_interval_hour
              THEN LET m == FirstMatch(w, table, c)
                   IN IF m # 0
                      THEN [ret |-> "False", consumed |-> m]
                      ELSE [ret |-> "True", consumed |-> Len(table)]
              ELSE [ret |-> "False", consumed |-> c]
    ELSE [ret |-> "False", consumed |-> c]

\* the rows "SELECT * ... WHERE submit_time >= now - monitor_interval_hour" selects
InWindow(e, t) == e.submit_time >= t - monitor_interval_hour

get_alert_log_table(rows, t) == SelectSeq(rows, LAMBDA e : InWindow(e, t))

\* update_alert_log_table without the "if not workflows: return" guard
update_alert_log_table_no_guard(wfs, rows, dry) ==
    IF ~dry THEN wfs ELSE rows

\* update_alert_log_table without the "if not DRY_RUN" guard
update_alert_log_table_no_dry_run(wfs, rows, dry) ==
    IF wfs = <<>> THEN rows ELSE wfs

\* update_alert_log_table appending to the rows the table holds at the write
update_alert_log_table_append(wfs, rows, dry) ==
    IF wfs = <<>> THEN rows
    ELSE IF ~dry THEN rows \o wfs
         ELSE rows

\* update_alert_log_table(workflows, ...): the table's rows afterwards
update_alert_log_table(wfs, rows, dry) ==
    IF wfs = <<>> THEN rows
    ELSE IF ~dry THEN wfs      \* df.to_gbq(..., if_exists='replace')
         ELSE rows

\* send_alert(workflows, ...): does it call send_email?
send_alert(wfs, dry) ==
    IF wfs = <<>> THEN FALSE
    ELSE ~dry

\* send_email(...): "NameError" (html_content is undefined) on Google Cloud
\* Function, otherwise prints 'SendGrid is not available.' and returns
send_email(gcf) == IF gcf THEN "NameError" ELSE "return"

\* main, lines 224-229, as one function: the loop over all_workflows from record
\* j on, at time t, with c rows of the iterator consumed and acc collected so far.
\* raised tells that check_workflow raised TypeError (main then passes nothing on).
RECURSIVE main_loop(_, _, _, _, _, _)
main_loop(all, table, j, c, acc, t) ==
    IF j > Len(all) THEN [raised |-> FALSE, workflows |-> acc]
    ELSE LET r == check_workflow(all[j], table, c, t)
         IN IF r.ret = "TypeError" THEN [raised |-> TRUE, workflows |-> <<>>]
            ELSE main_loop(all, table, j + 1, r.consumed,
                           IF r.ret = "True" THEN Append(acc, all[j]) ELSE acc, t)

\* the set of records main alerts on for the collected records all and the loaded
\* log window table
AlertSet(all, table, t) ==
    LET res == main_loop(all, table, 1, 0, <<>>, t)
    IN [raised |-> res.raised, alerts |-> Range(res.workflows)]

\* ---------------------------------------------------------------- Init
Init ==
    /\ now = 0
    /\ submitted = {}
    /\ cost = [id \in WorkflowIds |-> 0]
    /\ submit_time = [id \in WorkflowIds |-> None]
    /\ alert_log = <<>>
    /\ to_gbq_log = {}
    /\ emails = 0
    /\ started = 0
    /\ pc = [i \in Invocations |-> "idle"]
    /\ DRY_RUN = [i \in Invocations |-> FALSE]
    /\ ON_GOOGLE_CLOUD_FUNCTION = [i \in Invocations |-> FALSE]
    /\ all_workflows = [i \in Invocations |-> <<>>]
    /\ alert_log_table = [i \in Invocations |-> <<>>]
    /\ consumed = [i \in Invocations |-> 0]
    /\ k = [i \in Invocations |-> 0]
    /\ workflows = [i \in Invocations |-> <<>>]

\* ---------------------------------------------------------------- the environment
Tick ==
    /\ now < MaxTime
    /\ now' = now + 1
    /\ UNCHANGED <<source, alert_log, to_gbq_log, emails, started, pc, locals>>

\* a workflow is submitted now; the submission may lack 'submissionDate'
Submit(id, c, withDate) ==
    /\ id \notin submitted
    /\ submitted' = submitted \cup {id}
    /\ cost' = [cost EXCEPT ![id] = c]
    /\ submit_time' = [submit_time EXCEPT ![id] = IF withDate THEN now ELSE None]
    /\ UNCHANGED <<now, alert_log, to_gbq_log, emails, started, pc, locals>>

\* a running workflow's cost climbs
CostChange(id, c) ==
    /\ id \in submitted
    /\ c > cost[id]
    /\ cost' = [cost EXCEPT ![id] = c]
    /\ UNCHANGED <<now, submitted, submit_time, alert_log, to_gbq_log, emails, started,
                   pc, locals>>

\* ---------------------------------------------------------------- main
Finished(i) == pc[i] \in {"idle", "Success", "TypeError", "NameError"}

\* main, line 221: all_workflows = get_all_workflows(namespace, workspace)
GetAllWorkflows(i, dry, gcf, order) ==
    /\ Finished(i)
    /\ started < MaxRuns
    /\ started' = started + 1
    /\ pc' = [pc EXCEPT ![i] = "get_alert_log_table"]
    /\ DRY_RUN' = [DRY_RUN EXCEPT ![i] = dry]
    /\ ON_GOOGLE_CLOUD_FUNCTION' = [ON_GOOGLE_CLOUD_FUNCTION EXCEPT ![i] = gcf]
    /\ all_workflows' = [all_workflows EXCEPT ![i] = [j \in 1..Len(order) |-> Workflow(order[j])]]
    /\ alert_log_table' = [alert_log_table EXCEPT ![i] = <<>>]
    /\ consumed' = [consumed EXCEPT ![i] = 0]
    /\ k' = [k EXCEPT ![i] = 0]
    /\ workflows' = [workflows EXCEPT ![i] = <<>>]
    /\ UNCHANGED <<now, source, alert_log, to_gbq_log, emails>>

\* main, line 222: alert_log_table = get_alert_log_table(...); the query has no
\* ORDER BY, so the rows come back in any order
GetAlertLogTable(i, rows) ==
    /\ pc[i] = "get_alert_log_table"
    /\ rows \in Permutations_(get_alert_log_table(alert_log, now))
    /\ alert_log_table' = [alert_log_table EXCEPT ![i] = rows]
    /\ consumed' = [consumed EXCEPT ![i] = 0]
    /\ pc' = [pc EXCEPT ![i] = IF all_workflows[i] = <<>> THEN "send_alert" ELSE "check_workflow"]
    /\ UNCHANGED <<now, source, alert_log, to_gbq_log, emails, started, DRY_RUN,
                   ON_GOOGLE_CLOUD_FUNCTION, all_workflows, k, workflows>>

\* main, lines 225-229: one iteration of the loop over all_workflows
CheckWorkflow(i) ==
    /\ pc[i] = "check_workflow"
    /\ LET w == all_workflows[i][k[i] + 1]
           r == check_workflow(w, alert_log_table[i], consumed[i], now)
       IN /\ consumed' = [consumed EXCEPT ![i] = r.consumed]
          /\ k' = [k EXCEPT ![i] = k[i] + 1]
          /\ workflows' = [workflows EXCEPT ![i] =
                              IF r.ret = "True" THEN Append(workflows[i], w) ELSE workflows[i]]
          /\ pc' = [pc EXCEPT ![i] =
                       IF r.ret = "TypeError" THEN "TypeError"
                       ELSE IF k[i] + 1 = Len(all_workflows[i]) THEN "send_alert"
                       ELSE "check_workflow"]
    /\ UNCHANGED <<now, source, alert_log, to_gbq_log, emails, started, DRY_RUN,
                   ON_GOOGLE_CLOUD_FUNCTION, all_workflows, alert_log_table>>

\* main, line 231: send_alert(workflows, ...); an exception of send_email is not
\* caught anywhere and ends main
SendAlert(i) ==
    /\ pc[i] = "send_alert"
    /\ IF send_alert(workflows[i], DRY_RUN[i])
       THEN /\ emails' = emails + 1
            /\ pc' = [pc EXCEPT ![i] =
                         IF send_email(ON_GOOGLE_CLOUD_FUNCTION[i]) = "NameError"
                         THEN "NameError" ELSE "update_alert_log_table"]
       ELSE /\ emails' = emails
            /\ pc' = [pc EXCEPT ![i] = "update_alert_log_table"]
    /\ UNCHANGED <<now, source, alert_log, to_gbq_log, started, locals>>

\* main, lines 232-234: update_alert_log_table(workflows, ...); return 'Success'
UpdateAlertLogTable(i) ==
    /\ pc[i] = "update_alert_log_table"
    /\ alert_log' = update_alert_log_table(workflows[i], alert_log, DRY_RUN[i])
    /\ to_gbq_log' = IF workflows[i] # <<>> /\ ~DRY_RUN[i]
                     THEN to_gbq_log \cup {Pair(w) : w \in Range(workflows[i])}
                     ELSE to_gbq_log
    /\ pc' = [pc EXCEPT ![i] = "Success"]
    /\ UNCHANGED <<now, source, emails, started, locals>>

\* ---------------------------------------------------------------- specifications
Environment ==
    \/ Tick
    \/ \E id \in WorkflowIds, c \in Costs, withDate \in BOOLEAN : Submit(id, c, withDate)
    \/ \E id \in WorkflowIds, c \in Costs : CostChange(id, c)

Pipeline(i) ==
    \/ \E rows \in Permutations_(get_alert_log_table(alert_log, now)) : GetAlertLogTable(i, rows)
    \/ CheckWorkflow(i)
    \/ SendAlert(i)
    \/ UpdateAlertLogTable(i)

\* the scheduled job: invocations of main follow one another (invocation 1 is
\* started again only after it has returned or raised)
Next ==
    \/ Environment
    \/ \E dry, gcf \in BOOLEAN, order \in Orderings(submitted) :
          GetAllWorkflows(1, dry, gcf, order)
    \/ Pipeline(1)

Spec == Init /\ [][Next]_vars

\* an at-least-once trigger: invocations may overlap (within one hour, while
\* workflows are being submitted)
NextOverlap ==
    \/ \E id \in WorkflowIds, c \in Costs, withDate \in BOOLEAN : Submit(id, c, withDate)
    \/ \E i \in Invocations, dry, gcf \in BOOLEAN, order \in Orderings(submitted) :
          GetAllWorkflows(i, dry, gcf, order)
    \/ \E i \in Invocations : Pipeline(i)

SpecOverlap == Init /\ [][NextOverlap]_vars

TypeOK ==
    /\ now \in 0..MaxTime
    /\ submitted \subseteq WorkflowIds
    /\ emails \in 0..MaxRuns
    /\ started \in 0..MaxRuns
    /\ \A i \in Invocations : k[i] \in 0..Len(all_workflows[i])
    /\ \A i \in Invocations : consumed[i] \in 0..Len(alert_log_table[i])

\* ---------------------------------------------------------------- properties
Running(i) == ~Finished(i)

\* invocation i takes a step of its check_workflow loop
CheckStep(i) == pc[i] = "check_workflow" /\ k'[i] = k[i] + 1

\* the record that step checks
Checked(i) == all_workflows[i][k[i] + 1]

Duplicate(w, e) == e.workflow_id = w.workflow_id /\ e.cost = w.cost

PassesThresholdAndWindow(w, t) ==
    /\ w.cost >= cost_limit_per_workflow
    /\ w.submit_time # None
    /\ t - w.submit_time < monitor_interval_hour

\* C1: in sequential non-dry-run invocations, a (workflow_id, cost) pair that was
\* alerted and written to the log is not alerted again by a later run (a record
\* is only ever selected while its submit_time is inside the monitoring window).
C1_NoReAlert ==
    [][\A i \in Invocations :
          (CheckStep(i) /\ ~DRY_RUN[i] /\ workflows'[i] # workflows[i])
             => Pair(Checked(i)) \notin to_gbq_log]_vars

\* C2: within one run, no record of the alert set duplicates (same workflow_id,
\* same cost) an entry of the alert log window loaded for that run.
C2_DuplicateNeverAlerted ==
    \A i \in Invocations :
       \A w \in Range(workflows[i]), e \in Range(alert_log_table[i]) : ~Duplicate(w, e)

\* C3: after a non-dry-run invocation with a non-empty alert set, the alert log
\* table holds the retained entries read at the start of the run together with
\* the newly alerted records.
C3_LogIsUnionOfRetainedAndNew ==
    (pc[1] = "Success" /\ ~DRY_RUN[1] /\ workflows[1] # <<>>)
       => Range(alert_log) = Range(alert_log_table[1]) \cup Range(workflows[1])

\* C4: when the delivery of a notification fails, the run does not abort and
\* update_alert_log_table still writes the new records.
C4_DeliveryFailureDoesNotAbort ==
    \A i \in Invocations :
       (/\ send_alert(workflows[i], DRY_RUN[i])
        /\ send_email(ON_GOOGLE_CLOUD_FUNCTION[i]) # "return"
        /\ pc[i] \in {"update_alert_log_table", "Success", "NameError"})
          => /\ pc[i] # "NameError"
             /\ pc[i] = "Success" => Range(workflows[i]) \subseteq Range(alert_log)

\* C5: a record is added to the alert set only if its cost is at least
\* cost_limit_per_workflow and its age is below monitor_interval_hour; a record
\* below the threshold, or at or above it but aged out, makes check_workflow
\* return False whatever the alert log holds.
C5_ThresholdAndWindow ==
    [][\A i \in Invocations : CheckStep(i) =>
          LET w == Checked(i)
          IN /\ workflows'[i] # workflows[i]
                  => /\ PassesThresholdAndWindow(w, now)
                     /\ workflows'[i] = Append(workflows[i], w)
             /\ (\/ w.cost < cost_limit_per_workflow
                 \/ (w.submit_time # None /\ now - w.submit_time >= monitor_interval_hour))
                  => /\ workflows'[i] = workflows[i]
                     /\ pc'[i] # "TypeError"]_vars

\* a run has alerted on one record and rejected another one that is at or above
\* the threshold but outside the monitoring window
C5_Witness ==
    \E i \in Invocations :
       /\ pc[i] = "send_alert"
       /\ workflows[i] # <<>>
       /\ \E w \in Range(all_workflows[i]) :
             /\ w \notin Range(workflows[i])
             /\ w.cost >= cost_limit_per_workflow
             /\ w.submit_time # None
             /\ now - w.submit_time >= monitor_interval_hour

C7_EmptyAlertSetNoEffect ==
    [][\A i \in Invocations :
          (/\ workflows[i] = <<>>
           /\ pc[i] \in {"send_alert", "update_alert_log_table"}
           /\ pc'[i] # pc[i])
             => emails' = emails /\ alert_log' = alert_log]_vars

\* a run that collected records and selected none has returned, and the log
\* written by an earlier run is still there
C7_Witness ==
    \E i \in Invocations :
       /\ pc[i] = "Success"
       /\ all_workflows[i] # <<>>
       /\ workflows[i] = <<>>
       /\ alert_log # <<>>

\* C8: no step of a dry-run invocation changes the alert log table or calls
\* send_email.
C8_DryRunNoEffect ==
    [][\A i \in Invocations :
          (DRY_RUN[i] /\ Running(i) /\ <<pc[i], k[i]>>' # <<pc[i], k[i]>>)
             => emails' = emails /\ alert_log' = alert_log]_vars

\* a dry run has selected records and returned; none of them is in the log
C8_Witness ==
    \E i \in Invocations :
       /\ pc[i] = "Success"
       /\ DRY_RUN[i]
       /\ workflows[i] # <<>>
       /\ \A w \in Range(workflows[i]) : w \notin Range(alert_log)

\* C9: the alert set does not depend on the order of the collected records nor on
\* the order of the loaded log entries.
C9_OrderIndependent ==
    \A i \in Invocations :
       (pc[i] = "check_workflow" /\ k[i] = 0)
          => \A p \in Permutations_(all_workflows[i]), q \in Permutations_(alert_log_table[i]) :
                AlertSet(p, q, now) = AlertSet(all_workflows[i], alert_log_table[i], now)

====
